---- MODULE Spec2Model ----
(***************************************************************************)
(* State-machine model of the benchmark sweep controller of                *)
(* mysql_benchmark.py: the remote session (_run_remote), the local batch   *)
(* supervisor (_run_local) with the active-database toggler, and the       *)
(* top-level driver (Sweep.start / main).                                  *)
(***************************************************************************)
EXTENDS Integers, Sequences, FiniteSets, TLC

(***************************************************************************)
(* Bounds of the model.                                                    *)
(***************************************************************************)
DbNum == 2            \* db_num of the configurations explored
NumMonitors == 1      \* monitoring commands of the main batch
Duration == 2         \* duration (ticks of one second) of the main batch
MaxTransFails == 2    \* cap of the remote failure counter
MaxInitCalls == 1     \* merge_dbcnf look-ups the constructor sends to the server
CopyTimeout == 2      \* deadline of the copy batch, in ticks (180 s in the code)
WarmupTime == 2       \* warm-up time (ticks) of the configurations with a warm-up
MaxStarts == 4        \* starts of sysbench commands in the life of their logs

(***************************************************************************)
(* Program constants.                                                      *)
(***************************************************************************)
_MAX_TRANS_FAILS == 2

\* Wall-clock horizon and number of Popen objects the bounds allow.
MaxTime == WarmupTime + Duration + CopyTimeout
MaxProcs == DbNum + DbNum + NumMonitors + Duration * DbNum + 1

Pids == 1..MaxProcs

VARIABLES
    cnf,              \* the parsed configuration (constant after Init)
    phase,            \* position of main()/Sweep.start()
    pc,               \* position inside _run_local
    exc,              \* exception propagating to main(), "none" if none
    status,           \* status variable of main()
    now,              \* time.time()
    start,            \* local start of _run_local
    _timeout,         \* local _timeout of _run_local
    toggle_base_time,
    warmup,           \* hasattr(self, 'warmup') and self.warmup
    running_p,
    _procs,
    stdout_dict,
    _active_db_pool,
    popen,            \* the Popen objects: command port and OS-level state
    next_pid,
    _running_sb,
    _success,
    _sb_launched,
    _trans,
    _trans_fails,
    dbpid_cache,      \* hasattr(self, 'dbpid_cache')
    init_calls,       \* remote calls the constructor still has to make
    last_remote,      \* outcome of the latest _run_remote call
    fatal_raised,     \* number of SweepFatalError raised in this run
    in_list,          \* locals of the latest toggle_action
    out_list,
    kill_list,        \* list(self.running_p) of the loop after the with-block
    hist,             \* observations of the current batch (history only)
    _dir,             \* the run directory: "none", "plain" or its suffix
    err_logs,         \* copy_mysql_err_logs: "none", "skipped" or "copied"
    cnf_ext,          \* extension of the sweep file: ".cnf" or ".done"
    outfile,          \* the sysbench logs of the run directory, by port
    jobs,             \* bmk.py: the job files of /root/auto/jobs
    bmk               \* bmk.py: the daemon's position and locals

vars == <<cnf, phase, pc, exc, status, now, start, _timeout, toggle_base_time,
          warmup, running_p, _procs, stdout_dict, _active_db_pool, popen,
          next_pid, _running_sb, _success, _sb_launched, _trans, _trans_fails,
          dbpid_cache, init_calls, last_remote, fatal_raised, in_list,
          out_list, kill_list, hist, _dir, err_logs, cnf_ext, outfile, jobs,
          bmk>>

bmkVars == <<jobs, bmk>>

remoteVars == <<_trans, _trans_fails, dbpid_cache, last_remote, fatal_raised>>
procVars == <<running_p, _procs, stdout_dict, _active_db_pool, popen, next_pid>>
clockVars == <<now, start, _timeout, toggle_base_time>>
localVars == <<in_list, out_list, kill_list>>
diagVars == <<_dir, err_logs, cnf_ext>>

(***************************************************************************)
(* Helpers on sequences and sets.                                          *)
(***************************************************************************)
Range(s) == {s[i] : i \in 1..Len(s)}

RemoveSeq(s, x) == SelectSeq(s, LAMBDA y : y # x)

RECURSIVE SortedSeq(_)
SortedSeq(S) ==
    IF S = {} THEN <<>>
    ELSE LET m == CHOOSE x \in S : \A y \in S : x <= y
         IN <<m>> \o SortedSeq(S \ {m})

SubsetsOfSize(S, k) == {T \in SUBSET S : Cardinality(T) = k}

(***************************************************************************)
(* Configuration.                                                          *)
(***************************************************************************)
\* range(self._db_port, self._db_port + self._db_num)
\* Variant of the port universe that is one port too wide.
db_port_pool_too_wide == cnf.db_port..(cnf.db_port + cnf.db_num)

_db_port_pool == cnf.db_port..(cnf.db_port + cnf.db_num - 1)

\* _local_misc_check: the part deciding on the fields modelled here.
_local_misc_check_ok(c) ==
    /\ c.active_ratio + c.toggle_pct <= 100
    /\ c.db_num > 0
    /\ c.duration > 0

need_warmup == cnf.warmup_time # 0

\* The sweep files explored; fast_mode is explored with half of the ports
\* active, without toggling and without a warm-up.
Configs ==
    {c \in [db_num : {DbNum},
            db_port : {1},
            active_ratio : {50, 100},
            toggle_pct : {0, 50},
            toggle_time : {1},
            duration : {Duration},
            warmup_time : {0, WarmupTime},
            fast_mode : BOOLEAN] :
        c.fast_mode => (/\ c.active_ratio = 50 /\ c.toggle_pct = 0
                        /\ c.warmup_time = 0)}

NoRemote == [called |-> FALSE, failed |-> FALSE, raised |-> FALSE,
             exit_status |-> 0, result |-> "", fails |-> 0, launched |-> FALSE,
             hung |-> FALSE]

\* Observations of one _run_local call, reset when the next call starts:
\*   started           processes the call started
\*   success_at_start  _success when the call started
\*   deadline          the timeout argument
\*   crit_failed       a sysbench process exited non-zero while the loop ran
\*   sb_failed         the loop classified a non-zero sysbench exit
\*   sb_done           the loop classified a zero sysbench exit
\*   probe_failed      the loop classified a non-zero exit of another command
\*   exit_path         how the loop ended
\*   toggles, toggled  toggle_action calls of the batch / of this tick
\*   pool_before       _active_db_pool before the toggle_action of this tick
\*   tick_stopped,
\*   tick_started      ports of the processes the toggle of this tick
\*                     released / started
\*   kill_warn         a kill of the call logged `Failed to kill'
\*   killed_after_warn a kill of the call took effect after one that failed
NoPool == [p \in {} |-> 0]

\* bmk.py is not running: no job file, the daemon not started.
NoJobs == <<>>
NoBmk == [pc |-> "none", next_cnf |-> 0, _current_status |-> "Idle",
          exc |-> "none", picked |-> <<>>, ran |-> {}]

NoHist == [started |-> {}, success_at_start |-> TRUE, crit_failed |-> FALSE,
           sb_failed |-> FALSE, sb_done |-> FALSE, probe_failed |-> FALSE,
           exit_path |-> "none", deadline |-> 0,
           toggles |-> 0, toggled |-> FALSE, pool_before |-> NoPool,
           tick_stopped |-> {}, tick_started |-> {},
           kill_warn |-> FALSE, killed_after_warn |-> FALSE,
           remote_kill |-> FALSE]

Init ==
    /\ cnf \in Configs
    /\ phase = "init"
    /\ pc = "idle"
    /\ exc = "none"
    /\ status = "unknown"
    /\ now = 0
    /\ start = 0
    /\ _timeout = 0
    /\ toggle_base_time = 0
    /\ warmup = FALSE
    /\ running_p = <<>>
    /\ _procs = {}
    /\ stdout_dict = {}
    /\ _active_db_pool = NoPool
    /\ popen = [p \in Pids |-> [sb |-> FALSE, port |-> 0, os |-> "none"]]
    /\ next_pid = 1
    /\ _running_sb = 0
    /\ _success = TRUE
    /\ _sb_launched = FALSE
    /\ _trans = "None"
    /\ _trans_fails = 0
    /\ dbpid_cache = FALSE
    /\ init_calls \in 0..MaxInitCalls
    /\ last_remote = NoRemote
    /\ fatal_raised = 0
    /\ in_list = <<>>
    /\ out_list = <<>>
    /\ kill_list = <<>>
    /\ hist = NoHist
    /\ _dir = "none"
    /\ err_logs = "none"
    /\ cnf_ext = ".cnf"
    /\ outfile = NoPool
    /\ jobs = NoJobs
    /\ bmk = NoBmk

(***************************************************************************)
(* RemoteSession: _run_remote.                                             *)
(***************************************************************************)
RaiseCount(raised) == IF raised THEN 1 ELSE 0

\* Variants of the gate: one that forgets the critical-phase flag, one that
\* raises one failure late.
fatal_gate_any_phase(fails, launched) == fails >= _MAX_TRANS_FAILS

fatal_gate_late(fails, launched) == fails > _MAX_TRANS_FAILS /\ ~launched

\* The test guarding `raise SweepFatalError' in the except branch.
fatal_gate(fails, launched) == fails >= _MAX_TRANS_FAILS /\ ~launched

\* One call of _run_remote from the session state (trans, fails).  `ok' tells
\* whether connect() and open_channel() succeed, `es' is the exit status of
\* the remote command, `alive' whether a transport that failed to open a
\* channel still reports active.
\* `connect' tells whether the call authenticates again (connect() with the
\* private key), which it does when is_active() is false.
run_remote_keeps_count(trans, fails, launched, ok, es, alive) ==
    IF ok
    THEN [trans |-> "active", fails |-> fails, failed |-> FALSE,
          raised |-> FALSE, exit_status |-> es, result |-> "out",
          connect |-> trans # "active"]
    ELSE [trans |-> IF trans = "active" /\ alive THEN "active" ELSE "inactive",
          fails |-> fails + 1, failed |-> TRUE,
          raised |-> fatal_gate(fails + 1, launched),
          exit_status |-> -1, result |-> "", connect |-> trans # "active"]

run_remote_result(trans, fails, launched, ok, es, alive) ==
    IF ok
    THEN [trans |-> "active", fails |-> 0, failed |-> FALSE, raised |-> FALSE,
          exit_status |-> es, result |-> "out", connect |-> trans # "active"]
    ELSE [trans |-> IF trans = "active" /\ alive THEN "active" ELSE "inactive",
          fails |-> fails + 1, failed |-> TRUE,
          raised |-> fatal_gate(fails + 1, launched),
          exit_status |-> -1, result |-> "", connect |-> trans # "active"]

RemoteOutcomes == {o \in [ok : BOOLEAN, es : {0, 1}, alive : BOOLEAN] :
                      /\ (o.ok \/ o.es = 0)
                      /\ (o.alive => ~o.ok /\ _trans = "active")
                      /\ (~o.ok => _trans_fails < MaxTransFails)}

\* _run_remote as a step of the controller: updates the session variables.
_run_remote(o) ==
    LET r == run_remote_result(_trans, _trans_fails, _sb_launched,
                               o.ok, o.es, o.alive)
    IN /\ _trans' = r.trans
       /\ _trans_fails' = r.fails
       /\ last_remote' = [called |-> TRUE, failed |-> r.failed,
                          raised |-> r.raised, exit_status |-> r.exit_status,
                          result |-> r.result, fails |-> r.fails,
                          launched |-> _sb_launched, hung |-> FALSE]

\* The phases whose handler sends a command with _run_remote and waits for
\* it: the constructor's look-ups, _pre_chk, clean_db, get_db_cnf_by_cmd.
RemoteCallPhases == {"init", "pre_chk", "clean_db", "get_db_cnf"}

\* _run_remote with a command that never signals completion: connect() and
\* open_channel() succeed, and the `while True' loop sleeps and polls
\* recv_ready() and exit_status_ready() with no limit, so the call never
\* returns and the handler that made it never goes on.
RemoteHang ==
    /\ phase \in RemoteCallPhases
    /\ phase = "init" => init_calls > 0
    /\ _trans' = "active"
    /\ last_remote' = [called |-> TRUE, failed |-> FALSE, raised |-> FALSE,
                       exit_status |-> -1, result |-> "",
                       fails |-> _trans_fails, launched |-> _sb_launched,
                       hung |-> TRUE]
    /\ UNCHANGED <<cnf, bmkVars, outfile, diagVars, phase, exc, status, pc, clockVars, procVars,
                   localVars, hist, warmup,
                   _running_sb, _success, _sb_launched, _trans_fails,
                   dbpid_cache, fatal_raised, init_calls>>

\* Variant of close_db_conn that closes the transport and keeps the object.
close_db_conn_keeps(trans) ==
    [trans |-> IF trans # "None" THEN "inactive" ELSE trans, raised |-> FALSE]

\* close_db_conn on a session in state trans: a transport object is closed
\* and dropped, None is left alone; AttributeError is suppressed and nothing
\* else is raised by the body.
close_db_conn_result(trans) ==
    [trans |-> IF trans # "None" THEN "None" ELSE trans, raised |-> FALSE]

close_db_conn == _trans' = close_db_conn_result(_trans).trans

(***************************************************************************)
(* Process tracking structures.  The operators below work on a record `t'  *)
(* holding running_p, _procs, stdout_dict, the active pool and the Popen   *)
(* table, so that one controller step can start or release several         *)
(* processes.  t.err is the exception a step left pending ("none" if none),*)
(* t.kill_warn whether a kill logged `Failed to kill', t.killed_after_warn *)
(* whether a kill took effect after one that failed.                       *)
(***************************************************************************)
Track == [running_p |-> running_p, _procs |-> _procs,
          stdout_dict |-> stdout_dict, pool |-> _active_db_pool,
          popen |-> popen, next_pid |-> next_pid,
          files |-> outfile, wu |-> warmup,
          kill_warn |-> FALSE, killed_after_warn |-> FALSE, err |-> "none"]

PoolPut(pool, port, pid) ==
    [k \in (DOMAIN pool) \cup {port} |-> IF k = port THEN pid ELSE pool[k]]

\* Variant of PoolPop that leaves the port in the pool.
PoolPop_keeps(pool, port) == pool

PoolPop(pool, port) == [k \in (DOMAIN pool) \ {port} |-> pool[k]]

\* A command of a batch: sb tells a sysbench command line, port its
\* --mysql-port (0 when the command line has none).
SbCmd(port) == [sb |-> TRUE, port |-> port]
OtherCmd == [sb |-> FALSE, port |-> 0]

cmd_is_sysbench(t, pid) == t.popen[pid].sb

get_proc_port(t, pid) == IF cmd_is_sysbench(t, pid) THEN t.popen[pid].port ELSE 0

\* The log files of the Command objects.  A SysbenchCommand of the warm-up
\* logs to /dev/null, one of the main batch to the sysbench log of its port;
\* monitoring commands are plain strings without a log.
DevNull == 0
get_sb_log_name(port) == port
Command_outfile(cmd, wu) == IF wu THEN DevNull ELSE get_sb_log_name(cmd.port)

\* os.path.isfile
isfile(files, f) == f # DevNull /\ f \in DOMAIN files

\* open(f, mode): the content the writes go after.
open(files, f, mode) == IF mode = "a" /\ f \in DOMAIN files THEN files[f] ELSE <<>>

\* open(f, mode), write(line) and flush; what goes to /dev/null is lost.
write(files, f, mode, line) ==
    IF f = DevNull THEN files
    ELSE [k \in (DOMAIN files) \cup {f} |->
             IF k = f THEN Append(open(files, f, mode), line) ELSE files[k]]

\* The setter of Command.benchmark_start.
benchmark_start(files, f) ==
    IF ~isfile(files, f) THEN write(files, f, "a", "START_TIME benchmark")
    ELSE files

\* Variant of Command.start that opens the log for writing.
Command_start_truncates(files, f) == write(files, f, "w", "START_TIME")

\* Command.start: the marker it writes to the log.
Command_start(files, f) == write(files, f, "a", "START_TIME")

_start_proc(t, cmd) ==
    LET f == Command_outfile(cmd, t.wu)
        f1 == IF ~t.wu THEN benchmark_start(t.files, f) ELSE t.files
    IN [t EXCEPT !.popen[t.next_pid] = [sb |-> cmd.sb, port |-> cmd.port, os |-> "run"],
                 !.next_pid = @ + 1,
                 !.files = IF cmd.sb THEN Command_start(f1, f) ELSE @]

epoll_register(t, pid) == [t EXCEPT !.stdout_dict = @ \cup {pid}]

\* Variant of register_struct that leaves the port out of the active pool.
register_struct_skips_pool(t, pid, port) ==
    LET t1 == [t EXCEPT !.running_p = Append(@, pid), !._procs = @ \cup {pid}]
    IN epoll_register(t1, pid)

register_struct(t, pid, port) ==
    LET t1 == [t EXCEPT !.running_p = Append(@, pid), !._procs = @ \cup {pid}]
        t2 == epoll_register(t1, pid)
    IN IF port # 0 THEN [t2 EXCEPT !.pool = PoolPut(@, port, pid)] ELSE t2

start_proc(t, cmd, port) == register_struct(_start_proc(t, cmd), t.next_pid, port)

launch_sysbench(t, port) == start_proc(t, SbCmd(port), port)

\* Variant of kill_proc that lets the error of a failed kill propagate.
kill_proc_raises(t, pid) ==
    IF pid \notin t._procs THEN t
    ELSE IF t.popen[pid].os = "run"
         THEN [t EXCEPT !.killed_after_warn = @ \/ t.kill_warn,
                        !.popen[pid] = [sb |-> FALSE, port |-> 0, os |-> "dead"]]
         ELSE [t EXCEPT !.kill_warn = TRUE, !.err = "ProcessLookupError"]

\* kill_proc: SIGTERM to the process group; a process that is gone makes
\* killpg raise ProcessLookupError, which is logged and swallowed.  Either
\* way the process is gone afterwards (Gone: not running, its exit status
\* and command line no longer read by the controller).
Gone == [sb |-> FALSE, port |-> 0, os |-> "dead"]

\* os.killpg(os.getpgid(pid), signal.SIGTERM): the signal is sent to the
\* group of a live process; for a process that is gone the call raises.
killpg(os) == IF os = "run" THEN "sent" ELSE "ProcessLookupError"

\* except (ProcessLookupError, BrokenPipeError, ValueError)
StopCaught == {"ProcessLookupError", "BrokenPipeError", "ValueError"}

\* Variant of Command.stop whose except clause misses ProcessLookupError.
Command_stop_uncaught(c) ==
    LET k == killpg(c.os)
    IN [os |-> "dead",
        fd |-> IF k = "sent" THEN "closed" ELSE c.fd,
        signalled |-> k = "sent",
        warned |-> FALSE,
        raised |-> k # "sent"]

\* Command.stop on a started command c = [os, fd]: signal the group, log a
\* warning for a caught error, then close the log (closing a closed file is
\* a no-op and OSError is swallowed).
Command_stop(c) ==
    LET k == killpg(c.os)
    IN IF k # "sent" /\ k \notin StopCaught
       THEN [os |-> "dead", fd |-> c.fd, signalled |-> FALSE,
             warned |-> FALSE, raised |-> TRUE]
       ELSE [os |-> "dead", fd |-> "closed", signalled |-> k = "sent",
             warned |-> k # "sent", raised |-> FALSE]

\* The Command object of a tracked sysbench process: start() opened its log
\* and only stop() closes it.
command_of(t, pid) == [os |-> t.popen[pid].os, fd |-> "open"]

kill_proc(t, pid) ==
    IF pid \notin t._procs THEN t
    ELSE IF cmd_is_sysbench(t, pid)
         THEN LET s == Command_stop(command_of(t, pid))
              IN IF s.raised THEN [t EXCEPT !.err = "ProcessLookupError"]
                 ELSE [t EXCEPT !.killed_after_warn = @ \/ (t.kill_warn /\ ~s.warned),
                                !.kill_warn = @ \/ s.warned,
                                !.popen[pid] = Gone]
         ELSE IF t.popen[pid].os = "run"
         THEN [t EXCEPT !.killed_after_warn = @ \/ t.kill_warn,
                        !.popen[pid] = Gone]
         ELSE [t EXCEPT !.kill_warn = TRUE, !.popen[pid] = Gone]

\* Variant of epoll_unregister that leaves the entry of stdout_dict.
epoll_unregister_keeps(t, pid) ==
    IF pid \in t.stdout_dict THEN t ELSE [t EXCEPT !.err = "KeyError"]

\* epoll_unregister: `del self.stdout_dict[fd]' raises KeyError when absent.
epoll_unregister(t, pid) ==
    IF pid \in t.stdout_dict
    THEN [t EXCEPT !.stdout_dict = @ \ {pid}]
    ELSE [t EXCEPT !.err = "KeyError"]

\* Variant of release_struct that leaves the process in _procs.
release_struct_keeps_procs(t, pid, port) ==
    LET t1 == epoll_unregister(t, pid)
    IN IF t1.err # "none" THEN t1
       ELSE IF pid \notin Range(t1.running_p) THEN [t1 EXCEPT !.err = "ValueError"]
       ELSE LET t2 == [t1 EXCEPT !.running_p = RemoveSeq(@, pid)]
            IN IF port # 0 THEN [t2 EXCEPT !.pool = PoolPop(@, port)] ELSE t2

release_struct(t, pid, port) ==
    LET t1 == epoll_unregister(t, pid)
    IN IF t1.err # "none" THEN t1
       ELSE IF pid \notin Range(t1.running_p) THEN [t1 EXCEPT !.err = "ValueError"]
       ELSE LET t2 == [t1 EXCEPT !.running_p = RemoveSeq(@, pid)]
            IN IF pid \notin t2._procs THEN [t2 EXCEPT !.err = "KeyError"]
               ELSE LET t3 == [t2 EXCEPT !._procs = @ \ {pid}]
                    IN IF port # 0 THEN [t3 EXCEPT !.pool = PoolPop(@, port)]
                       ELSE t3

release_proc(t, pid, port) ==
    LET k == kill_proc(t, pid)
    IN IF k.err # "none" THEN k ELSE release_struct(k, pid, port)

RECURSIVE start_all(_, _)
start_all(t, cmds) ==
    IF cmds = <<>> THEN t
    ELSE start_all(start_proc(t, Head(cmds), Head(cmds).port), Tail(cmds))

\* Writes a tracking record back to the variables.
SetTrack(t) ==
    /\ running_p' = t.running_p
    /\ _procs' = t._procs
    /\ stdout_dict' = t.stdout_dict
    /\ _active_db_pool' = t.pool
    /\ popen' = t.popen
    /\ next_pid' = t.next_pid
    /\ outfile' = t.files

(***************************************************************************)
(* ActiveResourceToggler.                                                  *)
(***************************************************************************)
\* Variant of toggle_enabled that does not look at the toggle percentage.
toggle_enabled_ignores_pct == ~warmup

\* Variant of toggle_enabled that does not look at the warm-up flag.
toggle_enabled_ignores_warmup == cnf.toggle_pct # 0

toggle_enabled == ~warmup /\ cnf.toggle_pct # 0

toggle_timeout == (now - toggle_base_time) >= cnf.toggle_time

\* int(self._toggle_pct * len(self._db_port_pool) / 100)
toggle_count == (cnf.toggle_pct * Cardinality(_db_port_pool)) \div 100

\* Variant of the in candidates that forgets to leave out the active ports.
toggle_in_any_port == _db_port_pool

toggle_in_candidates == _db_port_pool \ (DOMAIN _active_db_pool)

toggle_out_candidates == DOMAIN _active_db_pool

\* random.sample(population, k): the possible samples; none when k exceeds
\* the population (ValueError).
random_sample(population, k) == SubsetsOfSize(population, k)

\* The first loop of toggle_action: release every tracked process whose port
\* is in the out list.
RECURSIVE toggle_release(_, _, _)
toggle_release(t, procs, out) ==
    IF procs = <<>> \/ t.err # "none" THEN t
    ELSE LET p == Head(procs)
             port == get_proc_port(t, p)
         IN toggle_release(IF port \in out THEN release_proc(t, p, port) ELSE t,
                           Tail(procs), out)

\* The second loop of toggle_action: launch sysbench on every port of the in
\* list, in list order.
RECURSIVE toggle_launch(_, _)
toggle_launch(t, ports) ==
    IF ports = <<>> THEN t
    ELSE toggle_launch(launch_sysbench(t, Head(ports)), Tail(ports))

\* get_pid_from_port for each of n active ports: a remote look-up for every
\* port until one of them fills dbpid_cache.  s is the session state, os the
\* outcomes of the look-ups.
RECURSIVE pid_lookups(_, _, _)
pid_lookups(s, n, os) ==
    IF n = 0 \/ s.cache \/ s.raised THEN s
    ELSE LET o == Head(os)
             r == run_remote_result(s.trans, s.fails, _sb_launched,
                                    o.ok, o.es, o.alive)
         IN pid_lookups([trans |-> r.trans, fails |-> r.fails,
                         cache |-> (r.exit_status = 0),
                         raised |-> r.raised,
                         over |-> s.over \/ (~o.ok /\ s.fails >= MaxTransFails),
                         calls |-> s.calls + 1,
                         last |-> [called |-> TRUE, failed |-> r.failed,
                                   raised |-> r.raised,
                                   exit_status |-> r.exit_status,
                                   result |-> r.result, fails |-> r.fails,
                                   launched |-> _sb_launched, hung |-> FALSE]],
                        n - 1, Tail(os))

LookupOutcomes(n) ==
    {os \in [1..n -> [ok : BOOLEAN, es : {0, 1}, alive : {FALSE}]] :
        \A i \in 1..n : os[i].ok \/ os[i].es = 0}

Session == [trans |-> _trans, fails |-> _trans_fails, cache |-> dbpid_cache,
            raised |-> FALSE, over |-> FALSE, calls |-> 0, last |-> last_remote]

SetSession(s) ==
    /\ _trans' = s.trans
    /\ _trans_fails' = s.fails
    /\ dbpid_cache' = s.cache
    /\ last_remote' = s.last

\* The two loops of toggle_action on the samples I (in) and O (out).
toggle_swap(I, O) ==
    toggle_launch(toggle_release(Track, running_p, O), SortedSeq(I))

\* Look-ups toggle_action makes for its log line: one per active port unless
\* dbpid_cache is there.
toggle_lookups(t) == IF dbpid_cache THEN 0 ELSE Cardinality(DOMAIN t.pool)

\* toggle_action with the samples I (in) and O (out) and the outcomes os of
\* its get_pid_from_port look-ups.
toggle_action(I, O, os) ==
    LET t2 == toggle_swap(I, O)
        s == pid_lookups(Session, toggle_lookups(t2), os)
    IN /\ ~s.over
       /\ in_list' = SortedSeq(I)
       /\ out_list' = SortedSeq(O)
       /\ SetTrack(t2)
       /\ SetSession(s)
       /\ fatal_raised' = fatal_raised + RaiseCount(s.raised)
       /\ UNCHANGED kill_list
       /\ hist' = [hist EXCEPT !.toggles = @ + 1, !.toggled = TRUE,
                               !.pool_before = _active_db_pool,
                               !.started = @ \cup (Range(t2.running_p) \ Range(running_p)),
                               !.tick_stopped =
                                   {get_proc_port(Track, p) :
                                      p \in Range(running_p) \ Range(t2.running_p)},
                               !.tick_started =
                                   {get_proc_port(t2, p) :
                                      p \in Range(t2.running_p) \ Range(running_p)},
                               !.kill_warn = @ \/ t2.kill_warn,
                               !.killed_after_warn = @ \/ t2.killed_after_warn]
       /\ IF t2.err # "none"
          THEN /\ pc' = "raised" /\ exc' = t2.err /\ phase' = "close"
          ELSE IF s.raised
          THEN /\ pc' = "raised" /\ exc' = "SweepFatalError" /\ phase' = "close"
          ELSE /\ pc' = "drain" /\ UNCHANGED <<exc, phase>>

(***************************************************************************)
(* LocalProcessSupervisor: _run_local, one action per step of the loop.    *)
(***************************************************************************)
LoopPcs == {"loop", "toggle", "drain", "classify"}

BatchPcs == LoopPcs \cup {"kill"}

\* _run_local from its entry to the first test of the loop condition:
\* starts every command of cmds.  wu is the value of self.warmup.  The code
\* uses time.time() in differences only (with start, with toggle_base_time),
\* so the clock is counted from the reading `start = time.time()' of the
\* call.
run_local_start(cmds, timeout, wu) ==
    LET t == start_all([Track EXCEPT !.wu = wu], cmds)
    IN /\ SetTrack(t)
       /\ _timeout' = timeout
       /\ now' = 0
       /\ start' = now'
       /\ toggle_base_time' = (IF wu THEN toggle_base_time ELSE now')
       /\ pc' = "loop"
       /\ hist' = [NoHist EXCEPT !.started = Range(t.running_p) \ Range(running_p),
                                 !.success_at_start = _success,
                                 !.deadline = timeout]
       /\ UNCHANGED localVars

\* while self.running_p and (time.time() - start) < _timeout
loop_condition == running_p # <<>> /\ (now - start) < _timeout

\* Variant of the loop that drains the output before the toggle check.
LoopCheck_drains_first ==
    /\ ~last_remote.hung
    /\ pc = "loop"
    /\ IF loop_condition
       THEN /\ pc' = "drain"
            /\ UNCHANGED <<kill_list, hist>>
       ELSE /\ pc' = "kill"
            /\ kill_list' = running_p
            /\ hist' = [hist EXCEPT !.exit_path =
                          IF running_p = <<>> THEN "all_exited"
                          ELSE IF _timeout # hist.deadline THEN "shrunk"
                          ELSE "deadline"]
    /\ UNCHANGED <<cnf, bmkVars, outfile, diagVars, phase, exc, status, clockVars, warmup, procVars,
                   _running_sb, _success, _sb_launched, remoteVars,
                   init_calls, in_list, out_list>>

LoopCheck ==
    /\ ~last_remote.hung
    /\ pc = "loop"
    /\ IF loop_condition
       THEN /\ pc' = "toggle"
            /\ UNCHANGED <<kill_list, hist>>
       ELSE /\ pc' = "kill"
            /\ kill_list' = running_p
            /\ hist' = [hist EXCEPT !.exit_path =
                          IF running_p = <<>> THEN "all_exited"
                          ELSE IF _timeout # hist.deadline THEN "shrunk"
                          ELSE "deadline"]
    /\ UNCHANGED <<cnf, bmkVars, outfile, diagVars, phase, exc, status, clockVars, warmup, procVars,
                   _running_sb, _success, _sb_launched, remoteVars,
                   init_calls, in_list, out_list>>

\* Step #1 of a tick: the toggle check.
ToggleSkip ==
    /\ ~last_remote.hung
    /\ pc = "toggle"
    /\ ~(toggle_enabled /\ toggle_timeout)
    /\ pc' = "drain"
    /\ UNCHANGED <<cnf, bmkVars, outfile, diagVars, phase, exc, status, clockVars, warmup, procVars,
                   _running_sb, _success, _sb_launched, remoteVars,
                   init_calls, localVars, hist>>

\* Both samples of toggle_action can be drawn.
toggle_samples ==
    /\ random_sample(toggle_in_candidates, toggle_count) # {}
    /\ random_sample(toggle_out_candidates, toggle_count) # {}

ToggleTick ==
    /\ ~last_remote.hung
    /\ pc = "toggle"
    /\ toggle_enabled /\ toggle_timeout
    /\ toggle_samples
    /\ toggle_base_time' = now
    /\ \E I \in random_sample(toggle_in_candidates, toggle_count),
          O \in random_sample(toggle_out_candidates, toggle_count) :
            \E os \in LookupOutcomes(toggle_lookups(toggle_swap(I, O))) :
               toggle_action(I, O, os)
    /\ UNCHANGED <<cnf, bmkVars, diagVars, status, now, start, _timeout, warmup, _running_sb,
                   _success, _sb_launched, init_calls>>

\* random.sample raises ValueError: the sample is larger than the population.
ToggleRaise ==
    /\ ~last_remote.hung
    /\ pc = "toggle"
    /\ toggle_enabled /\ toggle_timeout
    /\ ~toggle_samples
    /\ toggle_base_time' = now
    /\ pc' = "raised"
    /\ exc' = "ValueError"
    /\ phase' = "close"
    /\ UNCHANGED <<cnf, bmkVars, outfile, diagVars, status, now, start, _timeout, warmup, procVars,
                   _running_sb, _success, _sb_launched, remoteVars,
                   init_calls, localVars, hist>>

\* Step #2 of a tick: self.p.poll(timeout=1) and check_proc_print.  The wait
\* returns at once when output is ready and after one second otherwise.  The
\* locals of the toggle_action of this tick are gone by now.
Drain ==
    /\ ~last_remote.hung
    /\ pc = "drain"
    /\ \E d \in {0, 1} :
          /\ now + d <= MaxTime
          /\ now' = now + d
    /\ pc' = "classify"
    /\ in_list' = <<>>
    /\ out_list' = <<>>
    /\ hist' = [hist EXCEPT !.toggled = FALSE, !.pool_before = NoPool,
                            !.tick_stopped = {}, !.tick_started = {}]
    /\ UNCHANGED <<cnf, bmkVars, outfile, diagVars, phase, exc, status, start, _timeout, toggle_base_time,
                   warmup, procVars, _running_sb, _success, _sb_launched,
                   remoteVars, init_calls, kill_list>>

\* proc.poll(): the exit status; -1 stands for None (still running).
poll(pid) == CASE popen[pid].os = "exit0" -> 0
               [] popen[pid].os = "exit1" -> 1
               [] OTHER -> -1

\* A poll() that returns an exit status has reaped the child.
reap(t, pid) == [t EXCEPT !.popen[pid] = Gone]

\* Variant of the scan that goes on to the last exited process of the list.
last_exited ==
    LET idx == {i \in 1..Len(running_p) : poll(running_p[i]) # -1}
    IN IF idx = {} THEN 0
       ELSE running_p[CHOOSE i \in idx : \A j \in idx : i >= j]

\* The scan `for proc in list(self.running_p)' stops at the first process
\* whose poll() is not None.
first_exited ==
    LET idx == {i \in 1..Len(running_p) : poll(running_p[i]) # -1}
    IN IF idx = {} THEN 0
       ELSE running_p[CHOOSE i \in idx : \A j \in idx : i <= j]

\* Variants of the classification: one that fails the batch on any non-zero
\* exit, one that fails it without shrinking the deadline.
classify_any_failure(ret, is_sb, running_sb, success, timeout) ==
    IF ret # 0
    THEN [running_sb |-> IF is_sb THEN running_sb - 1 ELSE running_sb,
          success |-> FALSE, timeout |-> 0, sb_failed |-> is_sb]
    ELSE IF is_sb /\ running_sb - 1 = 0
         THEN [running_sb |-> 0, success |-> TRUE, timeout |-> 0,
               sb_failed |-> FALSE]
         ELSE [running_sb |-> IF is_sb THEN running_sb - 1 ELSE running_sb,
               success |-> success, timeout |-> timeout, sb_failed |-> FALSE]

classify_keeps_deadline(ret, is_sb, running_sb, success, timeout) ==
    IF ret # 0 /\ is_sb
    THEN [running_sb |-> running_sb - 1, success |-> FALSE,
          timeout |-> timeout, sb_failed |-> TRUE]
    ELSE IF ret = 0 /\ is_sb /\ running_sb - 1 = 0
         THEN [running_sb |-> 0, success |-> TRUE, timeout |-> 0,
               sb_failed |-> FALSE]
         ELSE [running_sb |-> IF is_sb THEN running_sb - 1 ELSE running_sb,
               success |-> success, timeout |-> timeout, sb_failed |-> FALSE]

\* The classification of an exited process: the new values of
\* _running_sb, _success and _timeout.
classify(ret, is_sb, running_sb, success, timeout) ==
    IF ret # 0
    THEN IF is_sb
         THEN [running_sb |-> running_sb - 1, success |-> FALSE, timeout |-> 0,
               sb_failed |-> TRUE]
         ELSE [running_sb |-> running_sb, success |-> success,
               timeout |-> timeout, sb_failed |-> FALSE]
    ELSE IF is_sb
         THEN IF running_sb - 1 = 0
              THEN [running_sb |-> 0, success |-> TRUE, timeout |-> 0,
                    sb_failed |-> FALSE]
              ELSE [running_sb |-> running_sb - 1, success |-> success,
                    timeout |-> timeout, sb_failed |-> FALSE]
         ELSE [running_sb |-> running_sb, success |-> success,
               timeout |-> timeout, sb_failed |-> FALSE]

\* Step #3 of a tick: poll the tracked processes, release and classify the
\* first one found exited.
Classify ==
    /\ ~last_remote.hung
    /\ pc = "classify"
    /\ LET p == first_exited
       IN IF p = 0
          THEN /\ pc' = "loop"
               /\ UNCHANGED <<procVars, outfile, _running_sb, _success,
                              _timeout, hist, exc, phase>>
          ELSE LET t == release_struct(reap(Track, p), p, get_proc_port(Track, p))
                   c == classify(poll(p), cmd_is_sysbench(Track, p),
                                 _running_sb, _success, _timeout)
               IN /\ SetTrack(t)
                  /\ IF t.err = "KeyError"
                     THEN /\ pc' = "raised" /\ exc' = "KeyError"
                          /\ phase' = "close"
                          /\ UNCHANGED <<_running_sb, _success, _timeout, hist>>
                     ELSE /\ pc' = "loop"
                          /\ _running_sb' = c.running_sb
                          /\ _success' = c.success
                          /\ _timeout' = c.timeout
                          /\ hist' = [hist EXCEPT
                                        !.sb_failed = @ \/ c.sb_failed,
                                        !.sb_done = @ \/
                                           (cmd_is_sysbench(Track, p) /\ poll(p) = 0),
                                        !.probe_failed = @ \/
                                           (~cmd_is_sysbench(Track, p) /\ poll(p) # 0)]
                          /\ UNCHANGED <<exc, phase>>
    /\ UNCHANGED <<cnf, bmkVars, diagVars, status, now, start, toggle_base_time, warmup,
                   _sb_launched, remoteVars, init_calls, localVars>>

\* The loop after the with-block: release_proc for every process still in
\* running_p, one process per step.
KillStep ==
    /\ ~last_remote.hung
    /\ pc = "kill"
    /\ kill_list # <<>>
    /\ LET p == Head(kill_list)
           t == release_proc([Track EXCEPT !.kill_warn = hist.kill_warn],
                             p, get_proc_port(Track, p))
       IN /\ SetTrack(t)
          /\ kill_list' = Tail(kill_list)
          /\ hist' = [hist EXCEPT !.kill_warn = t.kill_warn,
                                  !.killed_after_warn = @ \/ t.killed_after_warn]
          /\ IF t.err # "none"
             THEN /\ pc' = "raised" /\ exc' = t.err /\ phase' = "close"
             ELSE /\ pc' = "kill" /\ UNCHANGED <<exc, phase>>
    /\ UNCHANGED <<cnf, bmkVars, diagVars, status, clockVars, warmup, _running_sb, _success,
                   _sb_launched, remoteVars, init_calls, in_list, out_list>>

\* reset_structures, then _run_local returns.
reset_structures ==
    /\ running_p' = <<>>
    /\ stdout_dict' = {}
    /\ _active_db_pool' = NoPool
    /\ toggle_base_time' = 0

\* Variant of the return that counts an elapsed deadline as a failure.
RunLocalReturn_deadline_fails ==
    /\ ~last_remote.hung
    /\ pc = "kill"
    /\ kill_list = <<>>
    /\ reset_structures
    /\ pc' = "returned"
    /\ _success' = (_success /\ hist.exit_path # "deadline")
    /\ UNCHANGED <<cnf, bmkVars, outfile, diagVars, phase, exc, status, now, start, _timeout, warmup,
                   _procs, popen, next_pid, _running_sb,
                   _sb_launched, remoteVars, init_calls, localVars, hist>>

RunLocalReturn ==
    /\ ~last_remote.hung
    /\ pc = "kill"
    /\ kill_list = <<>>
    /\ reset_structures
    /\ pc' = "returned"
    /\ UNCHANGED <<cnf, bmkVars, outfile, diagVars, phase, exc, status, now, start, _timeout, warmup,
                   _procs, popen, next_pid, _running_sb, _success,
                   _sb_launched, remoteVars, init_calls, localVars, hist>>

\* A child process exits by itself with status 0 or 1.  The controller sees
\* an exit only when it signals or polls the process (the toggle, the scan of
\* step #3, the final kill loop), so exits are taken right before those.
ProcExit ==
    /\ ~last_remote.hung
    /\ pc \in {"toggle", "classify", "kill"}
    /\ \E p \in Pids, code \in {0, 1} :
          /\ popen[p].os = "run"
          /\ popen' = [popen EXCEPT ![p].os = IF code = 0 THEN "exit0" ELSE "exit1"]
          /\ hist' = [hist EXCEPT !.crit_failed =
                         @ \/ (popen[p].sb /\ code # 0 /\ pc \in LoopPcs)]
    /\ UNCHANGED <<cnf, bmkVars, outfile, diagVars, phase, pc, exc, status, clockVars, warmup, running_p,
                   _procs, stdout_dict, _active_db_pool, next_pid, _running_sb,
                   _success, _sb_launched, remoteVars, init_calls,
                   localVars>>

(***************************************************************************)
(* Sweep controller: the constructor, start() and main().                  *)
(***************************************************************************)
batchVars == <<pc, clockVars, procVars, localVars, hist>>

\* Sweep.__init__: merge_dbcnf look-ups of values the sweep file leaves out.
\* A SweepFatalError leaves the constructor, so the with-block of main() is
\* never entered and main() reports the failure.
InitRemote ==
    /\ ~last_remote.hung
    /\ phase = "init"
    /\ init_calls > 0
    /\ \E o \in RemoteOutcomes : _run_remote(o)
    /\ fatal_raised' = fatal_raised + RaiseCount(last_remote'.raised)
    /\ init_calls' = init_calls - 1
    /\ IF last_remote'.raised
       THEN /\ exc' = "SweepFatalError" /\ phase' = "ended"
            /\ status' = "failed"
       ELSE UNCHANGED <<exc, phase, status>>
    /\ UNCHANGED <<cnf, bmkVars, outfile, diagVars, batchVars, warmup, _running_sb, _success, _sb_launched,
                   dbpid_cache>>

\* _pre_chk: _local_misc_check, the local part of the sanity check.  A
\* ValueError is turned into SweepConfigError, which main() does not catch.
\* Variant of the local check that records the error and lets the run go on.
PreChkLocal_continues ==
    /\ ~last_remote.hung
    /\ phase = "init"
    /\ init_calls = 0
    /\ IF _local_misc_check_ok(cnf)
       THEN /\ phase' = "pre_chk"
            /\ UNCHANGED <<exc, _success>>
       ELSE /\ phase' = "pre_chk"
            /\ exc' = "SweepConfigError"
            /\ _success' = FALSE
    /\ UNCHANGED <<cnf, bmkVars, outfile, diagVars, status, batchVars, warmup, _running_sb, _sb_launched,
                   remoteVars, init_calls>>

PreChkLocal ==
    /\ ~last_remote.hung
    /\ phase = "init"
    /\ init_calls = 0
    /\ IF _local_misc_check_ok(cnf)
       THEN /\ phase' = "pre_chk"
            /\ UNCHANGED <<exc, _success>>
       ELSE /\ phase' = "ended"
            /\ exc' = "SweepConfigError"
            /\ _success' = FALSE
    /\ UNCHANGED <<cnf, bmkVars, outfile, diagVars, status, batchVars, warmup, _running_sb, _sb_launched,
                   remoteVars, init_calls>>

\* _pre_chk: _check_sb_threads reads max_connections from the server and
\* compares the thread count with it; a ValueError of the comparison is
\* turned into SweepConfigError like the one of the local check.
PreChkRemote ==
    /\ ~last_remote.hung
    /\ phase = "pre_chk"
    /\ \E o \in RemoteOutcomes : _run_remote(o)
    /\ fatal_raised' = fatal_raised + RaiseCount(last_remote'.raised)
    /\ \E threads_ok \in BOOLEAN :
          IF last_remote'.raised
          THEN /\ exc' = "SweepFatalError" /\ phase' = "ended"
               /\ status' = "failed"
               /\ UNCHANGED _success
          ELSE IF ~threads_ok
          THEN /\ exc' = "SweepConfigError" /\ phase' = "ended"
               /\ _success' = FALSE
               /\ UNCHANGED status
          ELSE /\ phase' = "clean_client" /\ UNCHANGED <<exc, status, _success>>
    /\ UNCHANGED <<cnf, bmkVars, outfile, diagVars, batchVars, warmup, _running_sb, _sb_launched,
                   dbpid_cache, init_calls>>

\* start() up to clean_client: the run directory is made, the sweep file is
\* copied into it, and the left-over local processes are killed by name.
CleanClient ==
    /\ ~last_remote.hung
    /\ phase = "clean_client"
    /\ _success
    /\ _dir' = "plain"
    /\ phase' = "clean_db"
    /\ UNCHANGED <<cnf, bmkVars, outfile, err_logs, cnf_ext, exc, status, batchVars, warmup, _running_sb,
                   _success, _sb_launched, remoteVars, init_calls>>

\* Variant of db_ready that accepts the -1 of a tolerated transport failure.
db_ready_tolerates(ret_code) == ret_code \in {0, -1}

db_ready(ret_code) == ret_code = 0

\* start() after clean_client: in fast mode a remote mkdir whose result is
\* not looked at, otherwise clean_db, whose remote clean-up script must
\* return 0.
CleanDb ==
    /\ ~last_remote.hung
    /\ phase = "clean_db"
    /\ \E o \in RemoteOutcomes : _run_remote(o)
    /\ IF last_remote'.raised
       THEN /\ exc' = "SweepFatalError" /\ phase' = "close"
            /\ fatal_raised' = fatal_raised + 1
            /\ UNCHANGED _success
       ELSE IF ~cnf.fast_mode /\ ~db_ready(last_remote'.exit_status)
       THEN /\ exc' = "SweepFatalError" /\ phase' = "close"
            /\ fatal_raised' = fatal_raised + 1
            /\ _success' = FALSE
       ELSE /\ phase' = "run_once"
            /\ UNCHANGED <<exc, fatal_raised, _success>>
    /\ UNCHANGED <<cnf, bmkVars, outfile, diagVars, status, batchVars, warmup, _running_sb, _sb_launched,
                   dbpid_cache, init_calls>>

\* run_once: the warm-up batch, one sysbench per port of the pool.
WarmupCmds == [i \in 1..Cardinality(_db_port_pool) |-> SbCmd(cnf.db_port + i - 1)]

StartWarmup ==
    /\ ~last_remote.hung
    /\ phase = "run_once"
    /\ need_warmup
    /\ warmup' = TRUE
    /\ phase' = "warmup"
    /\ run_local_start(WarmupCmds, cnf.warmup_time, TRUE)
    /\ UNCHANGED <<cnf, bmkVars, diagVars, exc, status, _running_sb, _success, _sb_launched,
                   remoteVars, init_calls>>

EndWarmup ==
    /\ ~last_remote.hung
    /\ phase = "warmup"
    /\ pc = "returned"
    /\ warmup' = FALSE
    /\ phase' = "run_main"
    /\ pc' = "idle"
    /\ UNCHANGED <<cnf, bmkVars, outfile, diagVars, exc, status, clockVars, procVars, localVars, hist,
                   _running_sb, _success, _sb_launched, remoteVars, init_calls>>

\* int(self._active_ratio * self._db_num / 100)
initial_count == (cnf.active_ratio * cnf.db_num) \div 100

MonitorCmds == [i \in 1..NumMonitors |-> OtherCmd]

PortCmds(ports) == [i \in 1..Len(ports) |-> SbCmd(ports[i])]

\* run_once: the main batch, sysbench on the initial active ports followed
\* by the monitoring commands.
StartMain ==
    /\ ~last_remote.hung
    /\ \/ phase = "run_once" /\ ~need_warmup
       \/ phase = "run_main"
    /\ \E ports \in random_sample(_db_port_pool, initial_count) :
          run_local_start(PortCmds(SortedSeq(ports)) \o MonitorCmds,
                          cnf.duration, FALSE)
    /\ _running_sb' = cnf.db_num
    /\ _sb_launched' = TRUE
    /\ phase' = "main"
    /\ UNCHANGED <<cnf, bmkVars, diagVars, exc, status, warmup, _success, remoteVars, init_calls>>

\* post_check: a FATAL line in a sysbench log fails a run that was a success.
\* Variant of the end of the main batch that cleans the database again and
\* reruns a workload that failed.
EndMain_retries ==
    /\ ~last_remote.hung
    /\ phase = "main"
    /\ pc = "returned"
    /\ \E fatal_in_log \in BOOLEAN :
          _success' = (_success /\ ~fatal_in_log)
    /\ phase' = (IF _success' THEN "collect" ELSE "clean_db")
    /\ pc' = "idle"
    /\ UNCHANGED <<cnf, bmkVars, outfile, diagVars, exc, status, clockVars, procVars, localVars, hist,
                   warmup, _running_sb, _sb_launched, remoteVars, init_calls>>

EndMain ==
    /\ ~last_remote.hung
    /\ phase = "main"
    /\ pc = "returned"
    /\ \E fatal_in_log \in BOOLEAN :
          _success' = (_success /\ ~fatal_in_log)
    /\ phase' = "collect"
    /\ pc' = "idle"
    /\ UNCHANGED <<cnf, bmkVars, outfile, diagVars, exc, status, clockVars, procVars, localVars, hist,
                   warmup, _running_sb, _sb_launched, remoteVars, init_calls>>

\* copy_db_file: one scp command run as a batch of its own.
StartCopy ==
    /\ ~last_remote.hung
    /\ phase = "collect"
    /\ run_local_start(<<OtherCmd>>, CopyTimeout, FALSE)
    /\ phase' = "copy"
    /\ UNCHANGED <<cnf, bmkVars, diagVars, exc, status, warmup, _running_sb, _success,
                   _sb_launched, remoteVars, init_calls>>

EndCopy ==
    /\ ~last_remote.hung
    /\ phase = "copy"
    /\ pc = "returned"
    /\ phase' = "get_db_cnf"
    /\ pc' = "idle"
    /\ UNCHANGED <<cnf, bmkVars, outfile, diagVars, exc, status, clockVars, procVars, localVars, hist,
                   warmup, _running_sb, _success, _sb_launched, remoteVars,
                   init_calls>>

\* get_db_cnf_by_cmd: a remote command whose failure is only logged.
GetDbCnf ==
    /\ ~last_remote.hung
    /\ phase = "get_db_cnf"
    /\ \E o \in RemoteOutcomes : _run_remote(o)
    /\ fatal_raised' = fatal_raised + RaiseCount(last_remote'.raised)
    /\ IF last_remote'.raised
       THEN /\ exc' = "SweepFatalError" /\ phase' = "close"
       ELSE /\ phase' = "finalize" /\ UNCHANGED exc
    /\ UNCHANGED <<cnf, bmkVars, outfile, diagVars, status, batchVars, warmup, _running_sb, _success,
                   _sb_launched, dbpid_cache, init_calls>>

\* The end of start() and the status main() derives from sweep.success.
\* copy_mysql_err_logs: `hostname' on the server, then one copy_db_file per
\* database when it answered; each copy is a batch of one scp command like
\* the copy batch above and leaves nothing tracked.
copy_mysql_err_logs(exit_status) == IF exit_status = 0 THEN "copied" ELSE "skipped"

\* The end of start(): a successful run renames the sweep file .done when
\* the option change_cnf_ext is set (default off); a failed run copies the
\* MySQL error logs and renames its directory with the suffix _FAILED; then
\* the status main() derives from sweep.success.
Finalize ==
    /\ ~last_remote.hung
    /\ phase = "finalize"
    /\ IF _success
       THEN /\ \E _change_cnf_ext \in BOOLEAN :
                  cnf_ext' = (IF _change_cnf_ext THEN ".done" ELSE cnf_ext)
            /\ UNCHANGED <<_dir, err_logs, remoteVars, exc>>
       ELSE /\ \E o \in RemoteOutcomes : _run_remote(o)
            /\ fatal_raised' = fatal_raised + RaiseCount(last_remote'.raised)
            /\ IF last_remote'.raised
               THEN /\ exc' = "SweepFatalError"
                    /\ UNCHANGED diagVars
               ELSE /\ err_logs' = copy_mysql_err_logs(last_remote'.exit_status)
                    /\ _dir' = "_FAILED"
                    /\ UNCHANGED <<exc, cnf_ext>>
            /\ UNCHANGED dbpid_cache
    /\ status' = (IF _success THEN "finished" ELSE "failed")
    /\ phase' = "close"
    /\ UNCHANGED <<cnf, bmkVars, outfile, batchVars, warmup, _running_sb, _success,
                   _sb_launched, init_calls>>

RECURSIVE kill_all(_, _)
kill_all(t, procs) ==
    IF procs = {} THEN t
    ELSE LET p == CHOOSE x \in procs : TRUE
         IN kill_all(kill_proc(t, p), procs \ {p})

\* The except clauses of main(): the status it reports for an exception.
main_status(e, st) ==
    IF e = "SweepFatalError" THEN "failed"
    ELSE IF e = "KeyboardInterrupt" THEN "canceled"
    ELSE st

\* main() on KeyboardInterrupt: os.rename(log_dir, log_dir + '_CANCELED')
\* with the name read before start(); the rename fails (suppressed) when no
\* directory of that name exists.
canceled_dir(e, d) ==
    IF e = "KeyboardInterrupt" /\ d = "plain" THEN "_CANCELED" ELSE d

\* Variant of the test of teardown_procs that ignores the failure counter.
kill_remote_always(sb_launched, trans_fails) == sb_launched

\* teardown_procs: `if self._sb_launched: if self._trans_fails == 0:' asks
\* the server to kill tdctl and monitor.
kill_remote_monitors(sb_launched, trans_fails) ==
    sb_launched /\ trans_fails = 0

\* Sweep.__exit__: close() = teardown_procs and close_db_conn, then the
\* except clauses of main().  hist.remote_kill records that the remote kill
\* was sent.
Close ==
    /\ ~last_remote.hung
    /\ phase = "close"
    /\ LET t == kill_all(Track, _procs)
       IN /\ popen' = t.popen
          /\ _procs' = {}
    /\ hist' = [hist EXCEPT !.remote_kill =
                  kill_remote_monitors(_sb_launched, _trans_fails)]
    /\ IF kill_remote_monitors(_sb_launched, _trans_fails)
       THEN \E o \in RemoteOutcomes :
               LET r == run_remote_result(_trans, _trans_fails, _sb_launched,
                                          o.ok, o.es, o.alive)
               IN /\ _trans_fails' = r.fails
                  /\ last_remote' = [called |-> TRUE, failed |-> r.failed,
                                     raised |-> r.raised,
                                     exit_status |-> r.exit_status,
                                     result |-> r.result, fails |-> r.fails,
                                     launched |-> _sb_launched, hung |-> FALSE]
                  /\ fatal_raised' = fatal_raised + RaiseCount(r.raised)
                  /\ IF r.raised
                     THEN /\ _trans' = r.trans
                          /\ exc' = "SweepFatalError"
                          /\ status' = "failed"
                          /\ UNCHANGED _dir
                     ELSE /\ close_db_conn
                          /\ UNCHANGED exc
                          /\ status' = main_status(exc, status)
                          /\ _dir' = canceled_dir(exc, _dir)
       ELSE /\ UNCHANGED <<_trans_fails, last_remote, fatal_raised, exc>>
            /\ close_db_conn
            /\ status' = main_status(exc, status)
            /\ _dir' = canceled_dir(exc, _dir)
    /\ phase' = "ended"
    /\ UNCHANGED <<cnf, bmkVars, outfile, err_logs, cnf_ext, pc, clockVars, running_p, stdout_dict,
                   _active_db_pool, next_pid, localVars, warmup,
                   _running_sb, _success, _sb_launched, dbpid_cache,
                   init_calls>>

\* The phases of the constructor and of the with-block of main().
CtorPhases == {"init", "pre_chk"}
WithPhases == {"clean_client", "clean_db", "run_once", "warmup", "run_main",
               "main", "collect", "copy", "get_db_cnf", "finalize"}

\* KeyboardInterrupt (Ctrl-C) anywhere in the constructor or in start(); the
\* frames of start() and _run_local are unwound with their locals.  Raised in
\* the constructor it reaches main() without the with-block being entered:
\* no close(), log_dir is still None.
Cancel ==
    /\ ~last_remote.hung
    /\ phase \in CtorPhases \cup WithPhases
    /\ exc = "none"
    /\ exc' = "KeyboardInterrupt"
    /\ IF phase \in CtorPhases
       THEN /\ phase' = "ended"
            /\ status' = main_status("KeyboardInterrupt", status)
       ELSE /\ phase' = "close"
            /\ UNCHANGED status
    /\ pc' = (IF pc \in BatchPcs THEN "raised" ELSE "idle")
    /\ start' = 0
    /\ _timeout' = 0
    /\ in_list' = <<>>
    /\ out_list' = <<>>
    /\ kill_list' = <<>>
    /\ hist' = NoHist
    /\ UNCHANGED <<cnf, bmkVars, outfile, diagVars, now, toggle_base_time, procVars, warmup,
                   _running_sb, _success, _sb_launched, remoteVars, init_calls>>

\* One step of the controller.  It is single-threaded: while a remote call
\* has not returned nothing else of it runs.
Next ==
    \/ InitRemote
    \/ PreChkLocal
    \/ PreChkRemote
    \/ CleanClient
    \/ CleanDb
    \/ StartWarmup
    \/ EndWarmup
    \/ StartMain
    \/ EndMain
    \/ StartCopy
    \/ EndCopy
    \/ GetDbCnf
    \/ Finalize
    \/ Close
    \/ LoopCheck
    \/ ToggleSkip
    \/ ToggleTick
    \/ ToggleRaise
    \/ Drain
    \/ Classify
    \/ KillStep
    \/ RunLocalReturn
    \/ ProcExit
    \/ Cancel
    \/ RemoteHang

Spec == Init /\ [][Next]_vars

(***************************************************************************)
(* Properties of the batch run (_run_local).                               *)
(***************************************************************************)
\* The processes the controller tracks in one of its structures.
Tracked == Range(running_p) \cup _procs \cup stdout_dict
              \cup {_active_db_pool[q] : q \in DOMAIN _active_db_pool}

\* C1: when _run_local has returned, running_p, stdout_dict and
\* _active_db_pool are empty and no process the call started is a key of
\* _procs; a call in progress tracks nothing but processes it started itself.
C1_Reentrancy ==
    /\ pc = "returned" =>
          /\ running_p = <<>>
          /\ stdout_dict = {}
          /\ DOMAIN _active_db_pool = {}
          /\ hist.started \cap _procs = {}
    /\ pc \in BatchPcs => Tracked \subseteq hist.started

\* A second call in sequence (the main batch after a warm-up) has returned
\* after a toggle.
C1_Witness ==
    /\ phase = "main" /\ pc = "returned"
    /\ need_warmup
    /\ hist.toggles > 0

\* C2: when _run_local returns from a batch in which a sysbench process
\* exited non-zero while the loop was running, the success flag is false.
C2_FastFail == (pc = "returned" /\ hist.crit_failed) => ~_success

\* C3: no step of a batch sets the success flag to false unless it classifies
\* a non-zero sysbench exit, so a batch entered with the flag true in which
\* only other commands fail returns with the flag true; a process whose exit
\* was classified is in none of the tracking structures.
C3_ProbeFailuresTolerated ==
    pc \in BatchPcs \cup {"returned"} =>
       /\ (hist.success_at_start /\ ~hist.sb_failed) => _success
       /\ \A p \in Pids : popen[p].os = "dead" => p \notin Tracked

\* The main batch returned a success after a monitor failed and every
\* sysbench process exited zero.
C3_Witness ==
    /\ phase = "main" /\ pc = "returned"
    /\ hist.probe_failed /\ hist.sb_done /\ ~hist.sb_failed
    /\ _running_sb = 0
    /\ _success

\* C4: once a non-zero sysbench exit is classified, the deadline is zero and
\* the flag false, the loop condition is false at its next test, no toggle,
\* drain or classification step follows, and the loop does not end on the
\* deadline path.
C4_PromptFastFail ==
    hist.sb_failed =>
       /\ _timeout = 0
       /\ ~_success
       /\ pc \notin {"toggle", "drain", "classify"}
       /\ pc = "loop" => ~loop_condition
       /\ hist.exit_path # "deadline"

\* The main batch returned a failure before its deadline, with other
\* processes left to stop.
C4_Witness ==
    /\ phase = "main" /\ pc = "returned"
    /\ hist.sb_failed
    /\ (now - start) < hist.deadline
    /\ hist.exit_path = "shrunk"

C6_DeadlineIsSuccess ==
    (pc \in {"kill", "returned"} /\ hist.exit_path = "deadline"
        /\ ~hist.crit_failed)
       => _success = hist.success_at_start

\* The deadline of the main batch elapsed with a process still running.
C6_Witness ==
    /\ phase = "main" /\ pc = "kill"
    /\ hist.exit_path = "deadline" /\ ~hist.crit_failed
    /\ \E p \in Range(kill_list) : popen[p].os = "run"
    /\ _success

C8_FatalSide ==
    /\ (last_remote.failed /\ last_remote.fails >= _MAX_TRANS_FAILS
          /\ ~last_remote.launched)
         => (last_remote.raised /\ fatal_raised = 1)
    /\ fatal_raised <= 1
    /\ fatal_raised = 1 =>
          /\ exc = "SweepFatalError"
          /\ phase \in {"close", "ended"}
          /\ phase = "ended" => status = "failed"

\* The second failure in a row before the launch ended the run as failed.
C8_Witness ==
    /\ last_remote.raised /\ ~last_remote.launched
    /\ last_remote.fails = _MAX_TRANS_FAILS
    /\ fatal_raised = 1
    /\ phase = "ended" /\ status = "failed"

C10_BalancedSwap ==
    (pc = "drain" /\ hist.toggled) =>
       Cardinality(DOMAIN _active_db_pool) = Cardinality(DOMAIN hist.pool_before)

\* A toggle changed which ports are active.
C10_Witness ==
    /\ pc = "drain" /\ hist.toggled
    /\ DOMAIN _active_db_pool # DOMAIN hist.pool_before
    /\ DOMAIN hist.pool_before # {}

\* C11: in every reachable state (warm-up, main phase, after toggles and
\* natural exits) every key of _active_db_pool lies in
\* db_port .. db_port + db_num - 1, and the pool holds at most db_num entries.
C11_PoolBounds ==
    /\ \A port \in DOMAIN _active_db_pool :
           /\ port >= cnf.db_port
           /\ port <= cnf.db_port + cnf.db_num - 1
    /\ Cardinality(DOMAIN _active_db_pool) <= cnf.db_num

\* A main batch right after a toggle swapped ports: the pool holds a port that
\* was not active when the tick began.
C11_Witness ==
    /\ phase = "main"
    /\ pc = "drain"
    /\ hist.toggled
    /\ DOMAIN _active_db_pool # {}
    /\ DOMAIN _active_db_pool # DOMAIN hist.pool_before

\* C12: at every point of the polling loop, every process of running_p that
\* has a port is the process the active pool holds under that port (so no two
\* tracked processes share a port), and every process the pool holds is in
\* running_p and is stored under its own port.
C12_Registration ==
    pc \in LoopPcs =>
       /\ \A p \in Range(running_p) :
             get_proc_port(Track, p) # 0 =>
                /\ get_proc_port(Track, p) \in DOMAIN _active_db_pool
                /\ _active_db_pool[get_proc_port(Track, p)] = p
       /\ \A q \in DOMAIN _active_db_pool :
             /\ _active_db_pool[q] \in Range(running_p)
             /\ get_proc_port(Track, _active_db_pool[q]) = q

\* The loop of a main batch after a toggle, tracking a sysbench process that
\* has exited but is not yet classified next to a monitor without a port.
C12_Witness ==
    /\ phase = "main" /\ pc = "classify"
    /\ hist.toggles > 0
    /\ \E p \in Range(running_p) :
          get_proc_port(Track, p) # 0 /\ popen[p].os \in {"exit0", "exit1"}
    /\ \E p \in Range(running_p) : get_proc_port(Track, p) = 0

\* C13: with toggle_pct = 0 no batch ever runs a toggle action and the toggler
\* stops no process; with active_ratio = 100 in addition, every port of the
\* universe is active from the start of the main batch for as long as no
\* sysbench process has exited and been classified.
C13_ToggleDisabled ==
    cnf.toggle_pct = 0 =>
       /\ hist.toggles = 0
       /\ ~hist.toggled
       /\ hist.tick_stopped = {}
       /\ pc # "toggle" \/ ~toggle_enabled
       /\ (cnf.active_ratio = 100 /\ phase = "main" /\ pc \in LoopPcs
             /\ ~hist.sb_done /\ ~hist.sb_failed)
            => DOMAIN _active_db_pool = _db_port_pool

\* A main batch with toggling off and every port active that ran to its
\* deadline, past the toggle interval, with every sysbench process running.
C13_Witness ==
    /\ cnf.toggle_pct = 0 /\ cnf.active_ratio = 100
    /\ phase = "main" /\ pc = "kill"
    /\ hist.exit_path = "deadline"
    /\ (now - start) >= cnf.toggle_time
    /\ ~hist.sb_done /\ ~hist.sb_failed
    /\ Len(kill_list) >= cnf.db_num

\* C14: a main batch with toggling on that runs to its deadline with every
\* workload process alive has run one toggle action per toggle interval of
\* its duration (duration / toggle_time of them, 3 for 90 s and 30 s), and
\* ends with as many active ports as it was started with.
C14_ScenarioB ==
    (/\ phase = "main" /\ pc = "kill"
     /\ hist.exit_path = "deadline"
     /\ cnf.toggle_pct # 0
     /\ ~hist.sb_done /\ ~hist.sb_failed)
       => /\ hist.toggles = cnf.duration \div cnf.toggle_time
          /\ Cardinality(DOMAIN _active_db_pool) = initial_count

\* C15: while the warm-up batch runs, toggle_action is never invoked: the
\* batch has run no toggle, whatever toggle_pct is and also when the warm-up
\* is longer than the toggle interval.
C15_NoToggleInWarmup ==
    (warmup \/ phase = "warmup") =>
       /\ hist.toggles = 0
       /\ ~hist.toggled
       /\ in_list = <<>> /\ out_list = <<>>

\* A warm-up with toggling configured that has run for a toggle interval or
\* more and is at the toggle test of its loop.
C15_Witness ==
    /\ warmup /\ phase = "warmup"
    /\ pc = "toggle"
    /\ cnf.toggle_pct # 0
    /\ (now - start) >= cnf.toggle_time
    /\ (now - start) < _timeout

(***************************************************************************)
(* Properties of the sweep controller.                                     *)
(***************************************************************************)
\* The positions of main() and start() in program order: the constructor and
\* its checks, clean_client, clean_db, run_once (warm-up and main batch),
\* the collection of the artifacts, the end of start(), close().
PhaseOrder == <<"init", "pre_chk", "clean_client", "clean_db", "run_once",
                "warmup", "run_main", "main", "collect", "copy", "get_db_cnf",
                "finalize", "close", "ended">>

Rank(ph) == CHOOSE i \in 1..Len(PhaseOrder) : PhaseOrder[i] = ph

(***************************************************************************)
(* Properties of stopping and closing.                                     *)
(***************************************************************************)
\* C16: for a process the batch has already stopped and released, a second
\* kill_proc and a second release_proc raise nothing and leave running_p,
\* _procs, stdout_dict and _active_db_pool as they are.
C16_IdempotentStop ==
    \A p \in hist.started :
        (popen[p].os = "dead" /\ p \notin Tracked) =>
            /\ kill_proc(Track, p) = Track
            /\ \A port \in {0} \cup _db_port_pool :
                  LET t == release_proc(Track, p, port)
                  IN /\ t.err = "none"
                     /\ t.running_p = running_p
                     /\ t._procs = _procs
                     /\ t.stdout_dict = stdout_dict
                     /\ t.pool = _active_db_pool

\* C17: Command.stop on a started command, called once or again on the
\* result, with the process running or already exited, never raises; it
\* leaves the log closed, signals the group exactly when the process is
\* there, and reports a missing process by a warning only.
C17_StopIdempotent ==
    \A p \in _procs :
        cmd_is_sysbench(Track, p) =>
            LET s1 == Command_stop(command_of(Track, p))
                s2 == Command_stop([os |-> s1.os, fd |-> s1.fd])
                s3 == Command_stop([os |-> s2.os, fd |-> s2.fd])
            IN /\ ~s1.raised /\ ~s2.raised /\ ~s3.raised
               /\ s1.fd = "closed" /\ s2.fd = "closed" /\ s3.fd = "closed"
               /\ s1.signalled = (popen[p].os = "run")
               /\ s1.warned = (popen[p].os # "run")
               /\ s2.warned /\ ~s2.signalled
               /\ s3 = s2

\* The final loop of a warm-up (every process a Command) is about to stop an
\* exited sysbench process after it stopped a running one.
C17_Witness ==
    /\ phase = "warmup" /\ pc = "kill"
    /\ Len(kill_list) >= 1
    /\ Head(kill_list) \in _procs
    /\ cmd_is_sysbench(Track, Head(kill_list))
    /\ popen[Head(kill_list)].os \in {"exit0", "exit1"}
    /\ \E p \in hist.started : popen[p].os = "dead"

C20_FailureCollection ==
    (phase = "ended" /\ _dir # "none" /\ status = "failed")
       => (err_logs # "none" /\ _dir = "_FAILED")

\* C21: a run whose workload failed (success flag false after the launch)
\* still goes through the artifact collection and ends with the MySQL error
\* logs copied, the run directory renamed _FAILED and the status failed; the
\* failure itself raises nothing.
C21_FailureRecorded ==
    (phase = "ended" /\ _sb_launched /\ ~_success)
       => /\ status = "failed"
          /\ exc = "none"
          /\ err_logs # "none"
          /\ _dir = "_FAILED"

\* C22: no remote call is made before the local sanity checks of the
\* configuration have been performed, and a configuration error is reported
\* without any remote call having been made.
C22_LocalChecksFirst ==
    (phase = "init" \/ exc = "SweepConfigError") => ~last_remote.called

\* C23: a configuration error ends the run at once: the run directory is
\* never made (client clean, database clean and run are not entered), no
\* local command has been started, the workload is not launched, and the
\* outcome is not a success.
C23_ConfigErrorAborts ==
    exc = "SweepConfigError" =>
       /\ phase = "ended"
       /\ _dir = "none"
       /\ next_pid = 1 /\ running_p = <<>> /\ _procs = {}
       /\ ~_sb_launched
       /\ ~_success
       /\ status # "finished"

\* The local check rejected a configuration whose percentages exceed 100.
C23_Witness ==
    /\ exc = "SweepConfigError" /\ phase = "ended"
    /\ ~_local_misc_check_ok(cnf)
    /\ ~last_remote.called

\* C24: a run ended by a fatal error or a configuration error has gone
\* through the teardown: no process it started is running or tracked in
\* _procs, and no connected transport is left behind.
C24_GuaranteedCleanup ==
    (phase = "ended" /\ exc \in {"SweepFatalError", "SweepConfigError"})
       => /\ \A p \in Pids : popen[p].os # "run"
          /\ _procs = {}
          /\ _trans # "active"

\* C25: a run the user interrupted has ended with every local process
\* stopped and none left in _procs, no connected transport left behind, the
\* status canceled, and its directory, once made, carrying the suffix
\* _CANCELED.
C25_OrderlyCancel ==
    (phase = "ended" /\ exc = "KeyboardInterrupt")
       => /\ \A p \in Pids : popen[p].os # "run"
          /\ _procs = {}
          /\ _trans # "active"
          /\ status = "canceled"
          /\ _dir \in {"none", "_CANCELED"}

\* C26: a run that has ended reports one of finished, failed, canceled;
\* finished goes with the success flag true, no exception, the sweep file
\* renamed .done and the directory without suffix; failed goes with the
\* directory suffixed _FAILED; canceled with the directory suffixed
\* _CANCELED (the directory markers for runs that made their directory).
C26_FinalStatus ==
    phase = "ended" =>
       /\ status \in {"finished", "failed", "canceled"}
       /\ status = "finished" <=> (_success /\ exc = "none")
       /\ status = "finished" => (cnf_ext = ".done" /\ _dir = "plain")
       /\ (status = "failed" /\ _dir # "none") => _dir = "_FAILED"
       /\ status = "canceled" <=> exc = "KeyboardInterrupt"
       /\ (status = "canceled" /\ _dir # "none") => _dir = "_CANCELED"

(***************************************************************************)
(* Properties of the waits.                                                *)
(***************************************************************************)
\* C27: no wait of the controller is unbounded: every remote call returns
\* (none stays in its polling loop for ever), and _run_local leaves its loop
\* no later than one polling tick after its deadline.
C27_BoundedWaits ==
    /\ ~last_remote.hung
    /\ pc = "kill" => (now - start) <= hist.deadline + 1

(***************************************************************************)
(* Properties of one tick of the loop of _run_local.                       *)
(***************************************************************************)
\* C28: within one tick the toggle check comes first, the draining of the
\* output second and the exit classification third (an exception leaves the
\* loop): draining starts only from the toggle step and classification only
\* from draining; the processes the toggle started are in running_p, _procs,
\* stdout_dict and _active_db_pool when draining starts; and draining leaves
\* these structures as the toggle left them for the classification.
C28_TickOrder ==
    [][pc' # pc =>
          /\ pc = "loop" => pc' \in {"toggle", "kill", "raised"}
          /\ pc = "toggle" => pc' \in {"drain", "raised"}
          /\ pc = "drain" => pc' \in {"classify", "raised"}
          /\ pc = "classify" => pc' \in {"loop", "raised"}
          /\ pc' = "drain" =>
                \A p \in Range(running_p') \ Range(running_p) :
                   /\ p \in _procs' /\ p \in stdout_dict'
                   /\ \E port \in DOMAIN _active_db_pool' :
                         _active_db_pool'[port] = p
          /\ pc' = "classify" => UNCHANGED procVars]_vars

\* The draining step of a tick whose toggle started a process: the process
\* is registered.
C28_Witness ==
    /\ pc = "drain" /\ hist.toggled
    /\ hist.tick_started # {}
    /\ \A port \in hist.tick_started :
          /\ port \in DOMAIN _active_db_pool
          /\ _active_db_pool[port] \in stdout_dict

\* The processes the loop can poll: proc.poll() scans running_p, the
\* multiplexer reports the descriptors of stdout_dict, and the pool names the
\* processes the toggle can stop.
Polled == Range(running_p) \cup stdout_dict
             \cup {_active_db_pool[port] : port \in DOMAIN _active_db_pool}

\* The processes that were started and have been released: stopped by a
\* release_proc or found exited and released by the classification.
Released == {p \in 1..(next_pid - 1) : popen[p] = Gone}

\* C29: while _run_local runs, a released process is in none of running_p,
\* stdout_dict, _procs and _active_db_pool, and the list the exit scan polls
\* and the registrations of the multiplexer hold the same processes, each
\* once: no later tick polls a released process, reads its output or
\* classifies its exit again.
C29_ReleasedNotPolled ==
    pc \in BatchPcs =>
       /\ Released \cap (Polled \cup _procs) = {}
       /\ Range(running_p) = stdout_dict
       /\ Cardinality(Range(running_p)) = Len(running_p)

\* A tick of the main batch after a process was released, with processes
\* still running.
C29_Witness ==
    /\ phase = "main" /\ pc = "toggle"
    /\ Released \cap hist.started # {}
    /\ running_p # <<>>
    /\ Released \cap (Polled \cup _procs) = {}

(***************************************************************************)
(* The logs of the sysbench commands.  SpecCommand starts, stops and       *)
(* restarts the commands of the ports in any order, as the toggle of a     *)
(* batch of any length does, with launch_sysbench and release_proc.        *)
(***************************************************************************)
InitCommand ==
    /\ cnf \in {c \in Configs : _local_misc_check_ok(c)}
    /\ phase = "main"
    /\ pc = "toggle"
    /\ exc = "none"
    /\ status = "unknown"
    /\ now = 0
    /\ start = 0
    /\ _timeout = cnf.duration
    /\ toggle_base_time = 0
    /\ warmup = FALSE
    /\ running_p = <<>>
    /\ _procs = {}
    /\ stdout_dict = {}
    /\ _active_db_pool = NoPool
    /\ popen = [p \in Pids |-> [sb |-> FALSE, port |-> 0, os |-> "none"]]
    /\ next_pid = 1
    /\ _running_sb = 0
    /\ _success = TRUE
    /\ _sb_launched = TRUE
    /\ _trans = "active"
    /\ _trans_fails = 0
    /\ dbpid_cache = FALSE
    /\ init_calls = 0
    /\ last_remote = NoRemote
    /\ fatal_raised = 0
    /\ in_list = <<>>
    /\ out_list = <<>>
    /\ kill_list = <<>>
    /\ hist = NoHist
    /\ _dir = "plain"
    /\ err_logs = "none"
    /\ cnf_ext = ".cnf"
    /\ outfile = NoPool
    /\ jobs = NoJobs
    /\ bmk = NoBmk

\* launch_sysbench on a port without a running command; self.warmup is set
\* for the commands of a warm-up.
CommandStart ==
    /\ next_pid <= MaxStarts
    /\ \E port \in _db_port_pool \ (DOMAIN _active_db_pool), wu \in BOOLEAN :
          /\ warmup' = wu
          /\ SetTrack(launch_sysbench([Track EXCEPT !.wu = wu], port))
    /\ UNCHANGED <<cnf, bmkVars, _dir, err_logs, cnf_ext, phase, pc, exc, status, clockVars,
                   _running_sb,
                   _success, _sb_launched, remoteVars, init_calls, localVars,
                   hist>>

\* release_proc of the running command of a port.
CommandStop ==
    /\ \E port \in DOMAIN _active_db_pool :
          SetTrack(release_proc(Track, _active_db_pool[port], port))
    /\ UNCHANGED <<cnf, bmkVars, _dir, err_logs, cnf_ext, phase, pc, exc, status, clockVars,
                   warmup, _running_sb, _success, _sb_launched, remoteVars,
                   init_calls, localVars, hist>>

NextCommand ==
    \/ CommandStart
    \/ CommandStop

SpecCommand == InitCommand /\ [][NextCommand]_vars

IsPrefix(a, b) == Len(a) <= Len(b) /\ SubSeq(b, 1, Len(a)) = a

\* C30: the log of a command only grows: in every step each log keeps its
\* earlier content as a prefix; every start of a sysbench command outside
\* the warm-up appends one START_TIME marker to the log of its port, after
\* the benchmark start marker when the log did not exist and after the
\* earlier content when it did; and a step that starts no such command
\* (a stop among them) leaves the logs as they are.
C30_AppendOnly ==
    [][/\ \A f \in DOMAIN outfile :
             f \in DOMAIN outfile' /\ IsPrefix(outfile[f], outfile'[f])
       /\ \A p \in next_pid..(next_pid' - 1) :
             (popen'[p].sb /\ ~warmup') =>
                LET f == popen'[p].port
                IN outfile'[f] =
                      (IF f \in DOMAIN outfile THEN outfile[f]
                       ELSE <<"START_TIME benchmark">>) \o <<"START_TIME">>
       /\ (next_pid' = next_pid \/ warmup') => outfile' = outfile]_vars

\* A command that was started, stopped and started again: its log holds the
\* benchmark start marker and the markers of both starts.
C30_Witness ==
    \E f \in DOMAIN _active_db_pool :
       /\ f \in DOMAIN outfile
       /\ outfile[f] = <<"START_TIME benchmark", "START_TIME", "START_TIME">>

(***************************************************************************)
(* Properties of the gate before the workload.                             *)
(***************************************************************************)
\* C31: without fast mode run_once is entered only after the clean-up
\* command returned exit status 0; when the command returned anything else,
\* the -1 of a tolerated transport failure included, start() is left with a
\* SweepFatalError and _success false, and no process has been started.
C31_DbReadyGate ==
    /\ (phase = "run_once" /\ ~cnf.fast_mode) =>
          /\ last_remote.called /\ ~last_remote.failed
          /\ last_remote.exit_status = 0
    /\ (/\ ~cnf.fast_mode /\ _dir = "plain" /\ ~_sb_launched
        /\ phase \in {"close", "ended"} /\ exc # "KeyboardInterrupt"
        /\ ~last_remote.raised) =>
          /\ last_remote.exit_status # 0
          /\ exc = "SweepFatalError" /\ ~_success
          /\ next_pid = 1 /\ running_p = <<>>

\* The clean-up command was lost to a tolerated transport failure.
C31_Witness ==
    /\ ~cnf.fast_mode /\ phase = "close" /\ _dir = "plain"
    /\ last_remote.failed /\ ~last_remote.raised
    /\ last_remote.exit_status = -1
    /\ exc = "SweepFatalError" /\ ~_success /\ next_pid = 1

(***************************************************************************)
(* Properties of the counter of running sysbench processes.                *)
(***************************************************************************)
\* The sysbench processes of the batch whose exit the loop has not
\* classified yet.
UnclassifiedSb == {p \in Range(running_p) : popen[p].sb}

\* C32: in a main batch without toggling, once every sysbench process the
\* batch launched has exited with status 0 and been classified, _running_sb
\* is 0, the batch is marked succeeded and the deadline is shrunk to 0.
C32_EarlySuccess ==
    (/\ phase = "main" /\ pc = "loop" /\ cnf.toggle_pct = 0
     /\ hist.sb_done /\ ~hist.sb_failed /\ ~hist.crit_failed
     /\ UnclassifiedSb = {}) =>
       /\ _running_sb = 0
       /\ _success
       /\ _timeout = 0

\* C33: when the main batch has been launched _running_sb equals the number
\* of sysbench processes it started, and during a batch without toggling it
\* equals the number of those whose exit has not been classified.
C33_CounterMatches ==
    (phase = "main" /\ pc \in LoopPcs /\ cnf.toggle_pct = 0) =>
       _running_sb = Cardinality(UnclassifiedSb)

(***************************************************************************)
(* Properties of the success flag.                                         *)
(***************************************************************************)
\* C34: the success flag is monotone within a run: no step sets _success
\* back to true once it is false.
C34_SuccessMonotone == [][_success' => _success]_vars

(***************************************************************************)
(* Properties of the toggle samples.                                       *)
(***************************************************************************)
\* C35: whenever a toggle is due, the number of ports to toggle is at most
\* the number of active ports and at most the number of inactive ports, so
\* toggle_action never leaves the batch with the ValueError of
\* random.sample.
C35_ToggleFeasible ==
    /\ (pc = "toggle" /\ toggle_enabled /\ toggle_timeout) =>
          /\ toggle_count <= Cardinality(toggle_out_candidates)
          /\ toggle_count <= Cardinality(toggle_in_candidates)
    /\ exc # "ValueError"

(***************************************************************************)
(* Properties of the exit scan.                                            *)
(***************************************************************************)
\* The exited processes of running_p, by position.
ExitedAt == {i \in 1..Len(running_p) : poll(running_p[i]) # -1}

\* C36: a tick classifies at most one exit: the scan of step #3 releases
\* the first exited process in the order of running_p and no other, the
\* counter of running sysbench processes moves by at most one, a scan that
\* finds no exited process changes nothing, and the other steps of the loop
\* classify nothing; a classified process is out of running_p, so it is
\* not classified again.
C36_OneExitPerTick ==
    [][/\ (pc = "classify" /\ pc' = "loop") =>
             /\ IF ExitedAt = {}
                THEN UNCHANGED <<running_p, _running_sb, _success, _timeout>>
                ELSE LET i == CHOOSE k \in ExitedAt : \A j \in ExitedAt : k <= j
                     IN /\ running_p' = RemoveSeq(running_p, running_p[i])
                        /\ popen'[running_p[i]] = Gone
             /\ _running_sb - _running_sb' \in {0, 1}
       /\ (pc \in {"loop", "toggle", "drain"} /\ pc' \in LoopPcs) =>
             UNCHANGED <<_running_sb, _success, _timeout>>]_vars

\* After the scan classified a sysbench exit another exited process is
\* still in running_p, left for a later tick.
C36_Witness ==
    /\ phase = "main" /\ pc = "loop"
    /\ hist.sb_done /\ _timeout > 0
    /\ ExitedAt # {}

InitSweep ==
    /\ cnf \in {c \in Configs : _local_misc_check_ok(c) /\ ~c.fast_mode
                                  /\ c.toggle_pct = 0 /\ c.warmup_time = 0}
    /\ phase = "main"
    /\ pc = "idle"
    /\ exc = "none"
    /\ status = "unknown"
    /\ now = 0
    /\ start = 0
    /\ _timeout = 0
    /\ toggle_base_time = 0
    /\ warmup = FALSE
    /\ running_p = <<>>
    /\ _procs = {}
    /\ stdout_dict = {}
    /\ _active_db_pool = NoPool
    /\ popen = [p \in Pids |-> [sb |-> FALSE, port |-> 0, os |-> "none"]]
    /\ next_pid = 1
    /\ _running_sb = 0
    /\ _success = TRUE
    /\ _sb_launched \in BOOLEAN
    /\ _trans = "active"
    /\ _trans_fails \in {0, 1}
    /\ dbpid_cache = FALSE
    /\ init_calls = 0
    /\ last_remote = NoRemote
    /\ fatal_raised = 0
    /\ in_list = <<>>
    /\ out_list = <<>>
    /\ kill_list = <<>>
    /\ hist = NoHist
    /\ _dir = "plain"
    /\ err_logs = "none"
    /\ cnf_ext = ".cnf"
    /\ outfile = NoPool
    /\ jobs = NoJobs
    /\ bmk = NoBmk

\* The frame of the steps of sweep.py's _run_local.
sweepFrame == <<cnf, bmkVars, outfile, diagVars, phase, exc, status, toggle_base_time,
                warmup, _active_db_pool, _sb_launched, remoteVars, init_calls,
                in_list, out_list>>

\* _run_local up to the loop: Popen for every command (k sysbench commands
\* and the monitoring commands), self._procs.extend, the registrations.
sweep_run_local ==
    /\ phase = "main"
    /\ pc \in {"idle", "returned"}
    /\ \E k \in 0..cnf.db_num :
          LET cmds == PortCmds([i \in 1..k |-> cnf.db_port + i - 1]) \o MonitorCmds
              new == next_pid..(next_pid + Len(cmds) - 1)
          IN /\ next_pid + Len(cmds) - 1 <= MaxStarts
             /\ popen' = [p \in Pids |->
                            IF p \in new
                            THEN [sb |-> cmds[p - next_pid + 1].sb,
                                  port |-> cmds[p - next_pid + 1].port,
                                  os |-> "run"]
                            ELSE popen[p]]
             /\ running_p' = [i \in 1..Len(cmds) |-> next_pid + i - 1]
             /\ _procs' = _procs \cup new
             /\ stdout_dict' = new
             /\ next_pid' = next_pid + Len(cmds)
             /\ _running_sb' = k
             /\ hist' = [NoHist EXCEPT !.started = new,
                                       !.success_at_start = _success,
                                       !.deadline = cnf.duration]
    /\ _timeout' = cnf.duration
    /\ now' = 0
    /\ start' = now'
    /\ pc' = "loop"
    /\ UNCHANGED <<sweepFrame, _success, kill_list>>

\* One pass of the while loop: p.poll(timeout=1), then the scan that removes
\* the first exited process from running_procs, self._procs and the epoll
\* object and classifies it.
sweep_loop ==
    /\ pc = "loop"
    /\ loop_condition
    /\ \E d \in {0, 1} :
          /\ now + d <= MaxTime
          /\ now' = now + d
    /\ LET p == first_exited
       IN IF p = 0
          THEN UNCHANGED <<procVars, _running_sb, _success, _timeout, hist>>
          ELSE LET c == classify(poll(p), popen[p].sb, _running_sb, _success,
                                 _timeout)
               IN /\ running_p' = RemoveSeq(running_p, p)
                  /\ _procs' = _procs \ {p}
                  /\ stdout_dict' = stdout_dict \ {p}
                  /\ popen' = [popen EXCEPT ![p] = Gone]
                  /\ _running_sb' = c.running_sb
                  /\ _success' = c.success
                  /\ _timeout' = c.timeout
                  /\ hist' = [hist EXCEPT !.sb_failed = @ \/ c.sb_failed]
                  /\ UNCHANGED <<_active_db_pool, next_pid>>
    /\ UNCHANGED <<sweepFrame, start, pc, kill_list>>

\* The loop condition fails: the with-block closes the epoll object and the
\* final loop `for proc in running_procs' starts.
sweep_loop_end ==
    /\ pc = "loop"
    /\ ~loop_condition
    /\ pc' = "kill"
    /\ kill_list' = running_p
    /\ stdout_dict' = {}
    /\ UNCHANGED <<sweepFrame, now, start, _timeout, running_p, _procs, popen,
                   next_pid, _running_sb, _success, hist>>

\* One pass of the final loop: os.killpg, then self._procs.remove(proc); a
\* ProcessLookupError of killpg skips the remove.  The signal to a process
\* that has exited by itself is delivered or fails.
sweep_kill ==
    /\ pc = "kill"
    /\ kill_list # <<>>
    /\ LET p == Head(kill_list)
       IN \E res \in {"sent", killpg(popen[p].os)} :
             IF res = "sent"
             THEN /\ popen' = [popen EXCEPT ![p] = Gone]
                  /\ _procs' = _procs \ {p}
                  /\ UNCHANGED hist
             ELSE /\ hist' = [hist EXCEPT !.kill_warn = TRUE]
                  /\ UNCHANGED <<popen, _procs>>
    /\ kill_list' = Tail(kill_list)
    /\ UNCHANGED <<sweepFrame, now, start, _timeout, pc, running_p, stdout_dict,
                   next_pid, _running_sb, _success>>

\* _run_local returns: its local list is gone.
sweep_return ==
    /\ pc = "kill"
    /\ kill_list = <<>>
    /\ pc' = "returned"
    /\ running_p' = <<>>
    /\ UNCHANGED <<sweepFrame, now, start, _timeout, _procs, stdout_dict, popen,
                   next_pid, _running_sb, _success, kill_list, hist>>

\* A process of the batch exits by itself.
sweep_proc_exit ==
    /\ pc \in {"loop", "kill"}
    /\ \E p \in Range(running_p), code \in {0, 1} :
          /\ popen[p].os = "run"
          /\ popen' = [popen EXCEPT ![p].os = IF code = 0 THEN "exit0" ELSE "exit1"]
    /\ UNCHANGED <<sweepFrame, now, start, _timeout, pc, running_p, _procs,
                   stdout_dict, next_pid, _running_sb, _success, kill_list,
                   hist>>

\* teardown_procs of sweep.py: kills what is in self._procs, empties it and
\* asks the server to kill tdctl and monitor.
sweep_teardown_procs ==
    /\ phase = "main"
    /\ pc = "returned"
    /\ popen' = [p \in Pids |-> IF p \in _procs /\ popen[p].os = "run"
                                THEN Gone ELSE popen[p]]
    /\ _procs' = {}
    /\ hist' = [hist EXCEPT !.remote_kill =
                  kill_remote_monitors(_sb_launched, _trans_fails)]
    /\ IF kill_remote_monitors(_sb_launched, _trans_fails)
       THEN /\ \E o \in RemoteOutcomes : _run_remote(o)
            /\ UNCHANGED <<dbpid_cache, fatal_raised>>
       ELSE UNCHANGED remoteVars
    /\ phase' = "ended"
    /\ UNCHANGED <<cnf, bmkVars, outfile, diagVars, exc, status, clockVars, warmup,
                   running_p, stdout_dict, _active_db_pool, next_pid,
                   _running_sb, _success, _sb_launched, init_calls, localVars,
                   pc>>

NextSweep ==
    \/ sweep_run_local
    \/ sweep_loop
    \/ sweep_loop_end
    \/ sweep_kill
    \/ sweep_return
    \/ sweep_proc_exit
    \/ sweep_teardown_procs

SpecSweep == InitSweep /\ [][NextSweep]_vars

\* C38: in sweep.py, when a call of _run_local has returned none of the
\* processes it started is left in self._procs.
C38_NoResidue ==
    pc = "returned" => hist.started \cap _procs = {}

\* C39: teardown_procs kills every process still in _procs and empties
\* _procs; the remote command that kills tdctl and monitor is sent if and
\* only if the workload has been launched and the remote failure counter is
\* zero, and when it is skipped the session variables are left alone.
C39_Teardown ==
    [][(phase = "close" /\ phase' = "ended") =>
          /\ _procs' = {}
          /\ \A p \in _procs : popen'[p].os = "dead"
          /\ hist'.remote_kill <=> (_sb_launched /\ _trans_fails = 0)
          /\ hist'.remote_kill =>
                /\ last_remote'.called
                /\ last_remote'.launched
                /\ last_remote'.fails = _trans_fails'
          /\ ~hist'.remote_kill =>
                UNCHANGED <<_trans_fails, last_remote, fatal_raised>>]_vars

\* The sweep is interrupted while the batch runs after a tolerated remote
\* failure: teardown has killed the tracked processes, emptied _procs and
\* skipped the remote kill.
C39_Witness ==
    /\ phase = "ended"
    /\ exc = "KeyboardInterrupt"
    /\ _sb_launched
    /\ _trans_fails > 0
    /\ ~hist.remote_kill
    /\ _procs = {}
    /\ \E p \in Pids : popen[p].os = "dead"

(***************************************************************************)
(* The job daemon, bmk.py: Bmk.loop picks the job files of /root/auto/jobs.*)
(* A job file is [ext, kind]: its extension and what its content does to   *)
(* load_config and to the sweep.                                           *)
(***************************************************************************)
NumJobs == 3

JobFiles == 1..NumJobs

\* The contents of a job file that the code tells apart: complete and
\* usable; a section or an option missing; an integer option that is not an
\* integer; a db_size that is no key of Sweep._matrix.
JobKinds == {"ok", "no_option", "not_int", "bad_size"}

\* The properties of BmkConfig.
BmkConfig_properties ==
    {"cnf_file", "db_ip", "db_port", "db_user", "client_ip", "client_port",
     "client_user", "sysbench_threads", "db_inst_num", "benchmark_target",
     "benchmark_type", "benchmark_time", "db_size", "loaded"}

\* BmkConfig.load_config: NoSectionError and NoOptionError are caught, the
\* file is renamed .bad and False returned; the ValueError of getint/int is
\* not caught.
load_config(kind) ==
    IF kind = "no_option"
    THEN [loaded |-> FALSE, ext |-> ".bad", exc |-> "none"]
    ELSE IF kind = "not_int"
    THEN [loaded |-> FALSE, ext |-> ".cnf", exc |-> "ValueError"]
    ELSE [loaded |-> TRUE, ext |-> ".cnf", exc |-> "none"]

\* Sweep._ssh_run: connect() raises when the host cannot be reached.
_ssh_run(reachable) == IF reachable THEN "none" ELSE "SSHException"

\* Sweep._clean_db: self._matrix[self._bmk_config.db_size], then _db_cmd.
_clean_db(kind, reachable) ==
    IF kind = "bad_size" THEN "KeyError" ELSE _ssh_run(reachable)

\* Sweep._run_single reads self._bmk_config.benchmark_duration before it
\* sends the sysbench command.
_run_single(reachable) ==
    IF "benchmark_duration" \notin BmkConfig_properties
    THEN "AttributeError"
    ELSE _ssh_run(reachable)

\* Sweep.run for the first entry of sysbench_threads (a loaded
\* configuration has at least one): _clean_client, _clean_db, _run_single.
\* The result is the exception that leaves run(), "none" when it returns.
Sweep_run(kind, reachable) ==
    IF _ssh_run(reachable) # "none" THEN _ssh_run(reachable)
    ELSE IF _clean_db(kind, reachable) # "none" THEN _clean_db(kind, reachable)
    ELSE _run_single(reachable)

\* find_next_cnf: the files os.walk can yield first that end with .cnf.
find_next_cnf == {f \in JobFiles : jobs[f].ext = ".cnf"}

InitBmk ==
    /\ jobs \in [JobFiles -> [ext : {".cnf"}, kind : JobKinds]]
    /\ bmk = [NoBmk EXCEPT !.pc = "find"]
    /\ cnf = CHOOSE c \in Configs : TRUE
    /\ phase = "ended"
    /\ pc = "idle"
    /\ exc = "none"
    /\ status = "unknown"
    /\ now = 0
    /\ start = 0
    /\ _timeout = 0
    /\ toggle_base_time = 0
    /\ warmup = FALSE
    /\ running_p = <<>>
    /\ _procs = {}
    /\ stdout_dict = {}
    /\ _active_db_pool = NoPool
    /\ popen = [p \in Pids |-> [sb |-> FALSE, port |-> 0, os |-> "none"]]
    /\ next_pid = 1
    /\ _running_sb = 0
    /\ _success = TRUE
    /\ _sb_launched = FALSE
    /\ _trans = "none"
    /\ _trans_fails = 0
    /\ dbpid_cache = FALSE
    /\ init_calls = 0
    /\ last_remote = NoRemote
    /\ fatal_raised = 0
    /\ in_list = <<>>
    /\ out_list = <<>>
    /\ kill_list = <<>>
    /\ hist = NoHist
    /\ _dir = "none"
    /\ err_logs = "none"
    /\ cnf_ext = ".cnf"
    /\ outfile = NoPool

\* The variables of the sweep controllers, which bmk.py does not use.
sweepVars == <<cnf, phase, pc, exc, status, clockVars, warmup, procVars,
               _running_sb, _success, _sb_launched, remoteVars, init_calls,
               localVars, hist, diagVars, outfile>>

\* Bmk.loop up to sweep.run(): find_next_cnf, load_config and the rename to
\* .running.  An exception of load_config leaves loop() and ends the daemon.
bmk_loop_find ==
    /\ bmk.pc = "find"
    /\ IF find_next_cnf = {}
       THEN /\ bmk' = [bmk EXCEPT !.pc = "sleep", !.next_cnf = 0]
            /\ UNCHANGED jobs
       ELSE \E f \in find_next_cnf :
               LET r == load_config(jobs[f].kind)
               IN IF r.exc # "none"
                  THEN /\ bmk' = [bmk EXCEPT !.pc = "dead", !.exc = r.exc,
                                             !.next_cnf = f,
                                             !.picked = Append(@, f)]
                       /\ UNCHANGED jobs
                  ELSE IF ~r.loaded
                  THEN /\ jobs' = [jobs EXCEPT ![f].ext = r.ext]
                       /\ bmk' = [bmk EXCEPT !.pc = "sleep", !.next_cnf = f,
                                             !.picked = Append(@, f)]
                  ELSE /\ jobs' = [jobs EXCEPT ![f].ext = ".running"]
                       /\ bmk' = [bmk EXCEPT !.pc = "run", !.next_cnf = f,
                                             !._current_status = "SweepRunning",
                                             !.picked = Append(@, f)]
    /\ UNCHANGED sweepVars

\* sweep.run() and the rename to .done that follows it; an exception of
\* run() leaves loop() before the rename.
bmk_loop_sweep ==
    /\ bmk.pc = "run"
    /\ \E reachable \in BOOLEAN :
          LET f == bmk.next_cnf
              e == Sweep_run(jobs[f].kind, reachable)
          IN IF e = "none"
             THEN /\ jobs' = [jobs EXCEPT ![f].ext = ".done"]
                  /\ bmk' = [bmk EXCEPT !.pc = "sleep", !.ran = @ \cup {f},
                                        !._current_status = "SweepDone"]
             ELSE /\ bmk' = [bmk EXCEPT !.pc = "dead", !.exc = e,
                                        !.ran = @ \cup {f}]
                  /\ UNCHANGED jobs
    /\ UNCHANGED sweepVars

\* time.sleep(self.checking_interval), then the next pass of the loop.
bmk_loop_sleep ==
    /\ bmk.pc = "sleep"
    /\ bmk' = [bmk EXCEPT !.pc = "find"]
    /\ UNCHANGED <<jobs, sweepVars>>

\* sigterm_handler (bmk stop): SystemExit(1) wherever the daemon is.
bmk_sigterm ==
    /\ bmk.pc \in {"find", "run", "sleep"}
    /\ bmk' = [bmk EXCEPT !.pc = "dead", !.exc = "SystemExit"]
    /\ UNCHANGED <<jobs, sweepVars>>

NextBmk ==
    \/ bmk_loop_find
    \/ bmk_loop_sweep
    \/ bmk_loop_sleep
    \/ bmk_sigterm

SpecBmk == InitBmk /\ [][NextBmk]_vars

\* C40: a job file is run only after it has loaded and been renamed
\* .running, it is .done only after its sweep was run, a file that fails to
\* load is .bad and never run, and once the daemon has left a pass of its
\* loop (unless it was stopped by a signal) every file it has picked is .done
\* or .bad, none picked twice.
C40_JobLifecycle ==
    /\ \A f \in bmk.ran :
          /\ load_config(jobs[f].kind).loaded
          /\ jobs[f].ext \in {".running", ".done"}
    /\ \A f \in JobFiles :
          /\ jobs[f].ext = ".done" => f \in bmk.ran
          /\ jobs[f].ext = ".bad" => f \notin bmk.ran
    /\ \A i, j \in 1..Len(bmk.picked) : bmk.picked[i] = bmk.picked[j] => i = j
    /\ (bmk.pc \in {"find", "sleep", "dead"} /\ bmk.exc # "SystemExit") =>
          \A i \in 1..Len(bmk.picked) :
             jobs[bmk.picked[i]].ext \in {".done", ".bad"}

====
